---- MODULE Spec2Model ----
(***************************************************************************)
(* UCLA Class Tracker (visualping-local).                                  *)
(*                                                                         *)
(* Two state machines over the same record store:                          *)
(*   Spec      the web API: POST /api/verify and GET / POST / DELETE       *)
(*             /api/trackers, translated from the route handlers;          *)
(*   PassSpec  one monitoring pass after another of the Run Orchestrator   *)
(*             (src/monitor.py is not part of the sources at hand; that    *)
(*             part follows spec.md sections 3, 4 and 7).                  *)
(* SystemSpec runs both over one store, PostSpec sends a wider range of    *)
(* POST bodies, LinkSpec issues several verification links, and RaceSpec   *)
(* and GetRaceSpec let POST and GET requests overlap between the store     *)
(* calls of their handlers.                                                *)
(*                                                                         *)
(* Strings the code inspects character by character (emails, API keys,     *)
(* query parameters, page content) are sequences of one-character strings; *)
(* strings the code only compares for equality are TLA+ strings.  A store  *)
(* call fails exactly where the handler reads the `error` of its result.   *)
(***************************************************************************)
EXTENDS Integers, Sequences, FiniteSets, TLC

VARIABLES
    tracked_urls,   \* table tracked_urls: sequence of rows, id = position
    email_tokens,   \* table email_tokens: sequence of rows, id = position
    now,            \* wall clock, milliseconds
    resp,           \* the request just handled and its response
    outbox,         \* verification links handed to Resend: set of [to, token]
    granted,        \* history: <<email, token>> pairs whose GET returned 200
    inflight,       \* requests between two store calls of their handler
    pass,           \* the monitoring pass: phase, tier, fallback credential
    queue,          \* selected trackers the pass has yet to process
    results,        \* per tracker id, its check in the current pass
    summary,        \* {checked, changed, errored} of the last finished pass
    lastContent     \* history: per tracker id, the raw content last fetched

apiVars == <<email_tokens, resp, outbox, granted, inflight>>
passVars == <<pass, queue, results, summary, lastContent>>
vars == <<tracked_urls, now, apiVars, passVars>>

----------------------------------------------------------------------------
(* Bounds of the model *)

MaxRows == 2        \* tracked_urls rows
MaxTokens == 1      \* email_tokens rows
MaxTicks == 2       \* clock steps

(* Model granularity of the clock: one step is twelve hours *)
TickMs == 12 * 60 * 60 * 1000

(* verify route: Date.now() + 24 * 60 * 60 * 1000 *)
TokenTtlMs == 24 * 60 * 60 * 1000

----------------------------------------------------------------------------
(* Values *)

NullTime == -1                  \* SQL NULL in a timestamp or date column
NullHash == -1                  \* SQL NULL in baseline_hash
NullContent == <<"<null>">>     \* SQL NULL in baseline_content
NoToken == 0                    \* no token query parameter (or an empty one)
NoId == 0                       \* no id query parameter
NoDate == -1                    \* expiresAt missing from the request body
Omitted == "<omitted>"          \* checkInterval missing from the request body
DefaultSelector == "#enrl_mtng_info"

EmailA == <<"a", "@", "u", ".", "e">>
EmailB == <<"b", "@", "u", ".", "e">>
EmailNoDot == <<"a", "@", "u">>
EmailSpace == <<"a", " ", "@", "u", ".", "e">>
NoString == <<>>                \* undefined, null or "": all falsy

ValidEmails == {EmailA, EmailB}
RequestEmails == ValidEmails \cup {EmailNoDot, EmailSpace, NoString}

KeyGood == <<"r", "e", "_", "k">>
KeyOther == <<"r", "e", "_", "j">>
KeyNoPrefix == <<"k", "e", "y">>
RequestKeys == {KeyGood, KeyNoPrefix, NoString}

WhiteSpace == {" ", "\t", "\n"}

----------------------------------------------------------------------------
(* String helpers *)

\* String.prototype.startsWith
StartsWith(s, prefix) ==
    /\ Len(s) >= Len(prefix)
    /\ SubSeq(s, 1, Len(prefix)) = prefix

\* String.prototype.includes on sequences
Includes(s, part) ==
    \E i \in 1..(Len(s) - Len(part) + 1) : SubSeq(s, i, i + Len(part) - 1) = part

\* String.prototype.trim
RECURSIVE TrimLeft(_)
TrimLeft(s) ==
    IF s # <<>> /\ Head(s) \in WhiteSpace THEN TrimLeft(Tail(s)) ELSE s

RECURSIVE TrimRight(_)
TrimRight(s) ==
    IF s # <<>> /\ s[Len(s)] \in WhiteSpace
    THEN TrimRight(SubSeq(s, 1, Len(s) - 1))
    ELSE s

Trim(s) == TrimRight(TrimLeft(s))

\* [^\s@]+ : a non-empty run free of white space and "@"
PlainRun(s) ==
    /\ s # <<>>
    /\ \A i \in 1..Len(s) : s[i] \notin WhiteSpace /\ s[i] # "@"

\* /^[^\s@]+@[^\s@]+\.[^\s@]+$/.test(email)
EmailFormatOk(email) ==
    \E at \in 1..Len(email) : \E dot \in (at + 1)..Len(email) :
        /\ email[at] = "@"
        /\ email[dot] = "."
        /\ PlainRun(SubSeq(email, 1, at - 1))
        /\ PlainRun(SubSeq(email, at + 1, dot - 1))
        /\ PlainRun(SubSeq(email, dot + 1, Len(email)))

----------------------------------------------------------------------------
(* URLs.  A request's uclaUrl is a string; the record carries the string   *)
(* (href) together with what `new URL(href)` makes of it.                  *)

HostSoc == <<"s", "a", ".", "u", "c", "l", "a", ".", "e", "d", "u">>
HostSub == <<"w", ".">> \o HostSoc
HostLookalike == HostSoc \o <<".", "x", ".", "i", "o">>
HostOther == <<"u", "c", "l", "a", ".", "e", "d", "u">>

Url(href, parses, hostname, term, subj, catlg, class) ==
    [href |-> href, parses |-> parses, hostname |-> hostname,
     term_cd |-> term, subj_area_cd |-> subj, crs_catlg_no |-> catlg,
     class_id |-> class]

T26W == <<"2", "6", "W">>
SubjCs == <<"C", "S", " ">>
Catlg31 == <<" ", "3", "1">>
Class1 == <<"1">>

UrlSoc == Url("https://sa.ucla.edu/soc?term_cd=26W&subj_area_cd=CS+&crs_catlg_no=+31&class_id=1",
              TRUE, HostSoc, T26W, SubjCs, Catlg31, Class1)
UrlSub == Url("https://w.sa.ucla.edu/soc?term_cd=26W&subj_area_cd=CS+&crs_catlg_no=+31&class_id=1",
              TRUE, HostSub, T26W, SubjCs, Catlg31, Class1)
UrlLookalike == Url("https://sa.ucla.edu.x.io/soc?term_cd=26W&subj_area_cd=CS+&crs_catlg_no=+31&class_id=1",
                    TRUE, HostLookalike, T26W, SubjCs, Catlg31, Class1)
UrlOther == Url("https://ucla.edu/soc?term_cd=26W&subj_area_cd=CS+&crs_catlg_no=+31&class_id=1",
                TRUE, HostOther, T26W, SubjCs, Catlg31, Class1)
UrlNoClass == Url("https://sa.ucla.edu/soc?term_cd=26W&subj_area_cd=CS+&crs_catlg_no=+31",
                  TRUE, HostSoc, T26W, SubjCs, Catlg31, NoString)
UrlBlankSubj == Url("https://sa.ucla.edu/soc?term_cd=26W&subj_area_cd=+&crs_catlg_no=+31&class_id=1",
                    TRUE, HostSoc, T26W, <<" ">>, Catlg31, Class1)
UrlNoTerm == Url("https://sa.ucla.edu/soc?subj_area_cd=CS+&crs_catlg_no=+31&class_id=1",
                 TRUE, HostSoc, NoString, SubjCs, Catlg31, Class1)
UrlBlankCatlg == Url("https://sa.ucla.edu/soc?term_cd=26W&subj_area_cd=CS+&crs_catlg_no=+&class_id=1",
                     TRUE, HostSoc, T26W, SubjCs, <<" ">>, Class1)
UrlGarbage == Url("not a url", FALSE, NoString, NoString, NoString, NoString, NoString)
UrlEmpty == Url("", FALSE, NoString, NoString, NoString, NoString, NoString)

RequestUrls == {UrlSoc, UrlSub, UrlLookalike, UrlOther, UrlNoClass,
                UrlBlankSubj, UrlNoTerm, UrlBlankCatlg, UrlGarbage, UrlEmpty}

NoParse == [ok |-> FALSE, termCode |-> NoString, subjectArea |-> NoString,
            catalogNumber |-> NoString, classId |-> NoString]

\* mutant: the parameters taken as they come, without .trim()
parseUclaUrlNoTrim(url) ==
    IF ~url.parses THEN NoParse
    ELSE IF ~Includes(url.hostname, HostSoc) THEN NoParse
    ELSE IF url.term_cd = NoString \/ url.subj_area_cd = NoString
            \/ url.crs_catlg_no = NoString \/ url.class_id = NoString
         THEN NoParse
         ELSE [ok |-> TRUE, termCode |-> url.term_cd,
               subjectArea |-> url.subj_area_cd,
               catalogNumber |-> url.crs_catlg_no, classId |-> url.class_id]

\* lib/supabase.ts parseUclaUrl; ok = FALSE is the null result
parseUclaUrl(url) ==
    IF ~url.parses THEN NoParse                        \* new URL throws
    ELSE IF ~Includes(url.hostname, HostSoc) THEN NoParse
    ELSE LET termCode == url.term_cd
             subjectArea == Trim(url.subj_area_cd)
             catalogNumber == Trim(url.crs_catlg_no)
             classId == url.class_id
         IN  IF termCode = NoString \/ subjectArea = NoString
                \/ catalogNumber = NoString \/ classId = NoString
             THEN NoParse
             ELSE [ok |-> TRUE, termCode |-> termCode,
                   subjectArea |-> subjectArea,
                   catalogNumber |-> catalogNumber, classId |-> classId]

\* lib/supabase.ts generateClassName
RECURSIVE StripSpace(_)
StripSpace(s) ==
    IF s = <<>> THEN <<>>
    ELSE IF Head(s) \in WhiteSpace THEN StripSpace(Tail(s))
    ELSE <<Head(s)>> \o StripSpace(Tail(s))

RECURSIVE CollapseSpace(_)
CollapseSpace(s) ==
    IF s = <<>> THEN <<>>
    ELSE IF Head(s) \in WhiteSpace
         THEN <<" ">> \o CollapseSpace(TrimLeft(s))
         ELSE <<Head(s)>> \o CollapseSpace(Tail(s))

generateClassName(parsed) ==
    IF ~parsed.ok THEN <<"?">>
    ELSE Trim(CollapseSpace(parsed.subjectArea)) \o <<" ">>
         \o Trim(StripSpace(parsed.catalogNumber))

----------------------------------------------------------------------------
(* The record store *)

Intervals == {"hourly", "6hours", "daily"}

\* supabase/schema.sql, table tracked_urls (column defaults included).
\* created_at (DEFAULT NOW(), microseconds) is the order of insertion: the
\* id.  updated_at, which no handler reads, is not modelled.
TrackedRow(id, email, key, href, name, term, subj, catlg, interval, expires) ==
    [id |-> id, email |-> email, resend_api_key |-> key, ucla_url |-> href,
     class_name |-> name, term_code |-> term, subject_area |-> subj,
     catalog_number |-> catlg, selector |-> DefaultSelector,
     check_interval |-> interval, expires_at |-> expires,
     baseline_hash |-> NullHash, baseline_content |-> NullContent,
     last_checked_at |-> NullTime, last_change_at |-> NullTime,
     is_active |-> TRUE, created_at |-> id]

\* supabase/schema.sql, table email_tokens (created_at, which no handler
\* reads, is not modelled)
TokenRow(id, email, token, expires) ==
    [id |-> id, email |-> email, token |-> token, expires_at |-> expires,
     used_at |-> NullTime]

\* mutant: .select("*")
ListedAll(r) == r

\* .select(...) of  GET /api/trackers: the columns the response carries
Listed(r) ==
    [id |-> r.id, email |-> r.email, ucla_url |-> r.ucla_url,
     class_name |-> r.class_name, term_code |-> r.term_code,
     subject_area |-> r.subject_area, catalog_number |-> r.catalog_number,
     selector |-> r.selector, check_interval |-> r.check_interval,
     expires_at |-> r.expires_at, last_checked_at |-> r.last_checked_at,
     last_change_at |-> r.last_change_at, is_active |-> r.is_active,
     created_at |-> r.created_at]

\* .order("created_at", { ascending: false }) over the rows with these ids
RECURSIVE NewestFirst(_, _)
NewestFirst(table, ids) ==
    IF ids = {} THEN <<>>
    ELSE LET newest == CHOOSE i \in ids :
                          \A j \in ids : table[i].created_at >= table[j].created_at
         IN  <<table[newest]>> \o NewestFirst(table, ids \ {newest})

Response(op, status, email, token, id, trackers) ==
    [op |-> op, status |-> status, email |-> email, token |-> token,
     id |-> id, trackers |-> trackers]

----------------------------------------------------------------------------
(* DELETE /api/trackers?id=..&email=.. *)

\* mutant: .delete() in place of the update
HardDelete(table, id, email) ==
    SelectSeq(table, LAMBDA r : ~(r.id = id /\ r.email = email))

\* mutant: the update also clears the baseline of the row
ResetDelete(table, id, email) ==
    [i \in 1..Len(table) |->
        IF table[i].id = id /\ table[i].email = email
        THEN [table[i] EXCEPT !.is_active = FALSE, !.baseline_hash = NullHash,
                              !.baseline_content = NullContent]
        ELSE table[i]]

\* mutant: the update flips is_active
ToggleDelete(table, id, email) ==
    [i \in 1..Len(table) |->
        IF table[i].id = id /\ table[i].email = email
        THEN [table[i] EXCEPT !.is_active = ~@]
        ELSE table[i]]

\* mutant: the update without .eq("email", email)
SoftDeleteById(table, id, email) ==
    [i \in 1..Len(table) |->
        IF table[i].id = id
        THEN [table[i] EXCEPT !.is_active = FALSE]
        ELSE table[i]]

\* .update({ is_active: false }).eq("id", id).eq("email", email)
SoftDelete(table, id, email) ==
    [i \in 1..Len(table) |->
        IF table[i].id = id /\ table[i].email = email
        THEN [table[i] EXCEPT !.is_active = FALSE]
        ELSE table[i]]

DeleteTrackers(id, email, storeError) ==
    /\ IF id = NoId \/ email = NoString
       THEN /\ resp' = Response("delete", 400, email, NoToken, id, <<>>)
            /\ UNCHANGED tracked_urls
       ELSE IF storeError
       THEN /\ resp' = Response("delete", 500, email, NoToken, id, <<>>)
            /\ UNCHANGED tracked_urls
       ELSE /\ tracked_urls' = SoftDelete(tracked_urls, id, email)
            /\ resp' = Response("delete", 200, email, NoToken, id, <<>>)
    /\ UNCHANGED <<email_tokens, now, outbox, granted, inflight, passVars>>

----------------------------------------------------------------------------
(* GET /api/trackers?email=..&token=.. *)

\* mutant: .gte in place of .gt on expires_at
TokenUsableAtExpiry(row, token, email, t) ==
    /\ row.token = token
    /\ row.email = email
    /\ row.used_at = NullTime
    /\ row.expires_at >= t

\* mutant: the lookup by token alone, without .eq("email", email)
TokenUsableAnyEmail(row, token, email, t) ==
    /\ row.token = token
    /\ row.used_at = NullTime
    /\ row.expires_at > t

\* .eq("token", token).eq("email", email).is("used_at", null)
\* .gt("expires_at", new Date().toISOString())
TokenUsable(row, token, email, t) ==
    /\ row.token = token
    /\ row.email = email
    /\ row.used_at = NullTime
    /\ row.expires_at > t

\* mutant: the update of used_at is left out
MarkUsedNever(tokens, id, t) == tokens

\* .update({ used_at: new Date().toISOString() }).eq("id", tokenData.id)
MarkUsed(tokens, id, t) ==
    [i \in 1..Len(tokens) |->
        IF tokens[i].id = id THEN [tokens[i] EXCEPT !.used_at = t]
        ELSE tokens[i]]

\* mutant: the token row is stamped as used whatever the check says
GetTrackersStamping(email, token, tokenError, listError) ==
    LET found == {i \in 1..Len(email_tokens) :
                     TokenUsable(email_tokens[i], token, email, now)}
        \* .single(): an error unless exactly one row matches
        rejected == token # NoToken
                    /\ (tokenError \/ Cardinality(found) # 1)
        mine == {i \in 1..Len(tracked_urls) : tracked_urls[i].email = email}
    IN
    /\ IF email = NoString
       THEN /\ resp' = Response("get", 400, email, token, NoId, <<>>)
            /\ UNCHANGED <<email_tokens, granted>>
       ELSE IF rejected
       THEN /\ resp' = Response("get", 401, email, token, NoId, <<>>)
            /\ email_tokens' =
                 [i \in 1..Len(email_tokens) |->
                     IF email_tokens[i].token = token
                     THEN [email_tokens[i] EXCEPT !.used_at = now]
                     ELSE email_tokens[i]]
            /\ UNCHANGED granted
       ELSE /\ email_tokens' =
                 IF token = NoToken THEN email_tokens
                 ELSE MarkUsed(email_tokens, CHOOSE i \in found : TRUE, now)
            /\ IF listError
               THEN /\ resp' = Response("get", 500, email, token, NoId, <<>>)
                    /\ UNCHANGED granted
               ELSE /\ resp' = Response("get", 200, email, token, NoId,
                                 LET rows == NewestFirst(tracked_urls, mine)
                                 IN  [i \in 1..Len(rows) |-> Listed(rows[i])])
                    /\ granted' = IF token = NoToken THEN granted
                                  ELSE granted \cup {<<email, token>>}
    /\ UNCHANGED <<tracked_urls, now, outbox, inflight, passVars>>

GetTrackers(email, token, tokenError, listError) ==
    LET found == {i \in 1..Len(email_tokens) :
                     TokenUsable(email_tokens[i], token, email, now)}
        \* .single(): an error unless exactly one row matches
        rejected == token # NoToken
                    /\ (tokenError \/ Cardinality(found) # 1)
        mine == {i \in 1..Len(tracked_urls) : tracked_urls[i].email = email}
    IN
    /\ IF email = NoString
       THEN /\ resp' = Response("get", 400, email, token, NoId, <<>>)
            /\ UNCHANGED <<email_tokens, granted>>
       ELSE IF rejected
       THEN /\ resp' = Response("get", 401, email, token, NoId, <<>>)
            /\ UNCHANGED <<email_tokens, granted>>
       ELSE /\ email_tokens' =
                 IF token = NoToken THEN email_tokens
                 ELSE MarkUsed(email_tokens, CHOOSE i \in found : TRUE, now)
            /\ IF listError
               THEN /\ resp' = Response("get", 500, email, token, NoId, <<>>)
                    /\ UNCHANGED granted
               ELSE /\ resp' = Response("get", 200, email, token, NoId,
                                 LET rows == NewestFirst(tracked_urls, mine)
                                 IN  [i \in 1..Len(rows) |-> Listed(rows[i])])
                    /\ granted' = IF token = NoToken THEN granted
                                  ELSE granted \cup {<<email, token>>}
    /\ UNCHANGED <<tracked_urls, now, outbox, inflight, passVars>>

\* requests in flight at once
MaxInflight == 2

\* the handler up to and including the token lookup; a request that is not
\* turned down is on its way to the used_at update and the listing
GetCheck(email, token, tokenError) ==
    LET found == {i \in 1..Len(email_tokens) :
                     TokenUsable(email_tokens[i], token, email, now)}
        rejected == token # NoToken
                    /\ (tokenError \/ Cardinality(found) # 1)
    IN
    /\ Len(inflight) < MaxInflight
    /\ IF email = NoString
       THEN /\ resp' = Response("get", 400, email, token, NoId, <<>>)
            /\ UNCHANGED inflight
       ELSE IF rejected
       THEN /\ resp' = Response("get", 401, email, token, NoId, <<>>)
            /\ UNCHANGED inflight
       ELSE /\ inflight' =
                 Append(inflight,
                        [email |-> email, token |-> token,
                         tokenData |-> IF token = NoToken THEN NoToken
                                       ELSE email_tokens[CHOOSE i \in found : TRUE].id])
            /\ UNCHANGED resp
    /\ UNCHANGED <<tracked_urls, email_tokens, now, outbox, granted, passVars>>

\* the rest of the handler for the k-th request in flight: the update of
\* used_at, the listing and the response
GetFinish(k, listError) ==
    /\ k \in 1..Len(inflight)
    /\ LET req == inflight[k]
           mine == {i \in 1..Len(tracked_urls) :
                       tracked_urls[i].email = req.email}
       IN  /\ email_tokens' =
                IF req.token = NoToken THEN email_tokens
                ELSE MarkUsed(email_tokens, req.tokenData, now)
           /\ IF listError
              THEN /\ resp' = Response("get", 500, req.email, req.token, NoId, <<>>)
                   /\ UNCHANGED granted
              ELSE /\ resp' = Response("get", 200, req.email, req.token, NoId,
                                LET rows == NewestFirst(tracked_urls, mine)
                                IN  [i \in 1..Len(rows) |-> Listed(rows[i])])
                   /\ granted' = IF req.token = NoToken THEN granted
                                 ELSE granted \cup {<<req.email, req.token>>}
    /\ inflight' = [i \in 1..(Len(inflight) - 1) |->
                      IF i < k THEN inflight[i] ELSE inflight[i + 1]]
    /\ UNCHANGED <<tracked_urls, now, outbox, passVars>>

----------------------------------------------------------------------------
(* POST /api/trackers *)

RequestIntervals == Intervals \cup {"weekly", Omitted}
RequestDates == {NoDate, 20}

\* an end date that is no date: expires_at is of type DATE, and Postgres
\* turns the insert down
BadDate == -2

\* what the validation request to api.resend.com/domains can come to:
\* an HTTP status, or 0 when fetch throws
ResendThrows == 0
ResendOutcomes == {200, 401, 429, ResendThrows}

\* `${subjectArea} ${catalogNumber}`.trim() with both undefined
UndefinedName == <<"u", "n", "d", "e", "f", "i", "n", "e", "d", " ",
                   "u", "n", "d", "e", "f", "i", "n", "e", "d">>

\* the body the /track form sends (fromForm) or a body with only the
\* required fields
Body(email, key, url, interval, expires, fromForm) ==
    LET parsed == parseUclaUrl(url)
        given == fromForm /\ parsed.ok
    IN  [email |-> email, resendApiKey |-> key, uclaUrl |-> url,
         className |-> IF given THEN generateClassName(parsed) ELSE NoString,
         termCode |-> IF given THEN parsed.termCode ELSE NoString,
         subjectArea |-> IF given THEN parsed.subjectArea ELSE NoString,
         catalogNumber |-> IF given THEN parsed.catalogNumber ELSE NoString,
         checkInterval |-> interval, expiresAt |-> expires]

Or(a, b) == IF a # NoString THEN a ELSE b       \* a || b on strings

\* mutant: the validation without the check of the interval
PostRejectionAnyInterval(body, resend) ==
    IF body.email = NoString \/ body.uclaUrl.href = ""
       \/ body.resendApiKey = NoString \/ body.expiresAt = NoDate
    THEN 400
    ELSE IF ~EmailFormatOk(body.email) THEN 400
    ELSE IF ~StartsWith(body.resendApiKey, <<"r", "e", "_">>) THEN 400
    ELSE IF resend = ResendThrows THEN 400
    ELSE IF resend \in {400, 401, 403} THEN 400
    ELSE IF ~parseUclaUrl(body.uclaUrl).ok THEN 400
    ELSE 0

\* mutant: the validation without expiresAt among the required fields
PostRejectionNoDate(body, resend) ==
    LET checkInterval == IF body.checkInterval = Omitted THEN "hourly"
                         ELSE body.checkInterval
    IN  IF body.email = NoString \/ body.uclaUrl.href = ""
           \/ body.resendApiKey = NoString
        THEN 400
        ELSE IF ~EmailFormatOk(body.email) THEN 400
        ELSE IF ~StartsWith(body.resendApiKey, <<"r", "e", "_">>) THEN 400
        ELSE IF resend = ResendThrows THEN 400
        ELSE IF resend \in {400, 401, 403} THEN 400
        ELSE IF ~parseUclaUrl(body.uclaUrl).ok THEN 400
        ELSE IF checkInterval \notin Intervals THEN 400
        ELSE 0

\* the validation steps of the handler, in order; 0 when all pass
PostRejection(body, resend) ==
    LET checkInterval == IF body.checkInterval = Omitted THEN "hourly"
                         ELSE body.checkInterval
    IN  IF body.email = NoString \/ body.uclaUrl.href = ""
           \/ body.resendApiKey = NoString \/ body.expiresAt = NoDate
        THEN 400
        ELSE IF ~EmailFormatOk(body.email) THEN 400
        ELSE IF ~StartsWith(body.resendApiKey, <<"r", "e", "_">>) THEN 400
        ELSE IF resend = ResendThrows THEN 400
        ELSE IF resend \in {400, 401, 403} THEN 400
        ELSE IF ~parseUclaUrl(body.uclaUrl).ok THEN 400
        ELSE IF checkInterval \notin Intervals THEN 400
        ELSE 0

\* mutant: the duplicate check without .eq("is_active", true)
ExistingAnyState(table, email, href) ==
    LET hits == {i \in 1..Len(table) : /\ table[i].email = email
                                        /\ table[i].ucla_url = href}
    IN  IF Cardinality(hits) = 1 THEN hits ELSE {}

\* .eq("email", email).eq("ucla_url", uclaUrl).eq("is_active", true).single()
Existing(table, email, href) ==
    LET hits == {i \in 1..Len(table) : /\ table[i].email = email
                                        /\ table[i].ucla_url = href
                                        /\ table[i].is_active}
    IN  IF Cardinality(hits) = 1 THEN hits ELSE {}

\* mutant: the insert copies a last check time into the new row
InsertedRowChecked(id, body) ==
    [TrackedRow(id, body.email, body.resendApiKey, body.uclaUrl.href,
                body.className, body.termCode, body.subjectArea,
                body.catalogNumber, "hourly", body.expiresAt)
        EXCEPT !.last_checked_at = 0]

\* the row of .insert({...})
InsertedRow(id, body) ==
    LET parsed == parseUclaUrl(body.uclaUrl)
    IN  TrackedRow(id, body.email, body.resendApiKey, body.uclaUrl.href,
                   IF body.className # NoString THEN body.className
                   ELSE IF body.subjectArea = NoString
                           /\ body.catalogNumber = NoString
                        THEN UndefinedName
                        ELSE Trim(body.subjectArea \o <<" ">>
                                  \o body.catalogNumber),
                   Or(body.termCode, parsed.termCode),
                   Or(body.subjectArea, parsed.subjectArea),
                   Or(body.catalogNumber, parsed.catalogNumber),
                   IF body.checkInterval = Omitted THEN "hourly"
                   ELSE body.checkInterval,
                   body.expiresAt)

\* mutant: the row is kept although the insert is answered with an error
PostTrackersLeaky(body, resend, storeError) ==
    LET rejection == PostRejection(body, resend)
        id == Len(tracked_urls) + 1
    IN
    /\ Len(tracked_urls) < MaxRows
    /\ IF rejection # 0
       THEN /\ resp' = Response("post", rejection, body.email, NoToken, NoId, <<>>)
            /\ UNCHANGED tracked_urls
       ELSE IF Existing(tracked_urls, body.email, body.uclaUrl.href) # {}
       THEN /\ resp' = Response("post", 409, body.email, NoToken, NoId, <<>>)
            /\ UNCHANGED tracked_urls
       ELSE IF storeError \/ body.expiresAt = BadDate
       THEN /\ resp' = Response("post", 500, body.email, NoToken, NoId, <<>>)
            /\ tracked_urls' = Append(tracked_urls, InsertedRow(id, body))
       ELSE /\ tracked_urls' = Append(tracked_urls, InsertedRow(id, body))
            /\ resp' = Response("post", 201, body.email, NoToken, id, <<>>)
    /\ UNCHANGED <<email_tokens, now, outbox, granted, inflight, passVars>>

\* POST /api/trackers
PostTrackers(body, resend, storeError) ==
    LET rejection == PostRejection(body, resend)
        id == Len(tracked_urls) + 1
    IN
    /\ Len(tracked_urls) < MaxRows
    /\ IF rejection # 0
       THEN /\ resp' = Response("post", rejection, body.email, NoToken, NoId, <<>>)
            /\ UNCHANGED tracked_urls
       ELSE IF Existing(tracked_urls, body.email, body.uclaUrl.href) # {}
       THEN /\ resp' = Response("post", 409, body.email, NoToken, NoId, <<>>)
            /\ UNCHANGED tracked_urls
       ELSE IF storeError \/ body.expiresAt = BadDate
       THEN /\ resp' = Response("post", 500, body.email, NoToken, NoId, <<>>)
            /\ UNCHANGED tracked_urls
       ELSE /\ tracked_urls' = Append(tracked_urls, InsertedRow(id, body))
            /\ resp' = Response("post", 201, body.email, NoToken, id, <<>>)
    /\ UNCHANGED <<email_tokens, now, outbox, granted, inflight, passVars>>

\* the handler up to and including its first store call: validation and the
\* duplicate check; a request that passes is on its way to the insert
PostCheck(body, resend) ==
    LET rejection == PostRejection(body, resend)
    IN
    /\ Len(tracked_urls) + Len(inflight) < MaxRows
    /\ Len(inflight) < MaxInflight
    /\ IF rejection # 0
       THEN /\ resp' = Response("post", rejection, body.email, NoToken, NoId, <<>>)
            /\ UNCHANGED inflight
       ELSE IF Existing(tracked_urls, body.email, body.uclaUrl.href) # {}
       THEN /\ resp' = Response("post", 409, body.email, NoToken, NoId, <<>>)
            /\ UNCHANGED inflight
       ELSE /\ inflight' = Append(inflight, body)
            /\ UNCHANGED resp
    /\ UNCHANGED <<tracked_urls, email_tokens, now, outbox, granted, passVars>>

\* the rest of the handler for the k-th request in flight: the insert and
\* the response
PostInsert(k, storeError) ==
    /\ k \in 1..Len(inflight)
    /\ LET body == inflight[k]
           id == Len(tracked_urls) + 1
       IN  IF storeError \/ body.expiresAt = BadDate
           THEN /\ resp' = Response("post", 500, body.email, NoToken, NoId, <<>>)
                /\ UNCHANGED tracked_urls
           ELSE /\ tracked_urls' = Append(tracked_urls, InsertedRow(id, body))
                /\ resp' = Response("post", 201, body.email, NoToken, id, <<>>)
    /\ inflight' = [i \in 1..(Len(inflight) - 1) |->
                      IF i < k THEN inflight[i] ELSE inflight[i + 1]]
    /\ UNCHANGED <<email_tokens, now, outbox, granted, passVars>>

----------------------------------------------------------------------------
(* POST /api/verify *)

\* what the send request to api.resend.com/emails can come to
SendOutcomes == {"ok", "refused", "throws"}

\* mutant: the key lookup without .eq("is_active", true)
VerifyEmailAnyTracker(email, storeError, send) ==
    LET mine == {i \in 1..Len(tracked_urls) :
                    tracked_urls[i].email = email}
        token == Len(email_tokens) + 1          \* randomBytes(32): fresh
    IN
    /\ IF email = NoString \/ ~EmailFormatOk(email)
       THEN /\ resp' = Response("verify", 400, email, NoToken, NoId, <<>>)
            /\ UNCHANGED <<email_tokens, outbox>>
       ELSE IF mine = {}
       THEN /\ resp' = Response("verify", 404, email, NoToken, NoId, <<>>)
            /\ UNCHANGED <<email_tokens, outbox>>
       ELSE \E first \in mine :                 \* .limit(1), no order
            LET resendApiKey == tracked_urls[first].resend_api_key
            IN  IF resendApiKey = NoString
                THEN /\ resp' = Response("verify", 400, email, NoToken, NoId, <<>>)
                     /\ UNCHANGED <<email_tokens, outbox>>
                ELSE IF storeError
                THEN /\ resp' = Response("verify", 500, email, NoToken, NoId, <<>>)
                     /\ UNCHANGED <<email_tokens, outbox>>
                ELSE /\ email_tokens' =
                          Append(email_tokens,
                                 TokenRow(token, email, token,
                                          now + TokenTtlMs))
                     /\ resp' = Response("verify",
                                    CASE send = "ok" -> 200
                                      [] send = "refused" -> 400
                                      [] OTHER -> 500,
                                    email, NoToken, NoId, <<>>)
                     /\ outbox' = IF send = "ok"
                                  THEN outbox \cup {[to |-> email, token |-> token,
                                                     key |-> resendApiKey]}
                                  ELSE outbox
    /\ UNCHANGED <<tracked_urls, now, granted, inflight, passVars>>

\* mutant: the email is requested before the token row is inserted
VerifyEmailSendFirst(email, storeError, send) ==
    LET mine == {i \in 1..Len(tracked_urls) :
                    tracked_urls[i].email = email /\ tracked_urls[i].is_active}
        token == Len(email_tokens) + 1          \* randomBytes(32): fresh
    IN
    /\ IF email = NoString \/ ~EmailFormatOk(email)
       THEN /\ resp' = Response("verify", 400, email, NoToken, NoId, <<>>)
            /\ UNCHANGED <<email_tokens, outbox>>
       ELSE IF mine = {}
       THEN /\ resp' = Response("verify", 404, email, NoToken, NoId, <<>>)
            /\ UNCHANGED <<email_tokens, outbox>>
       ELSE \E first \in mine :                 \* .limit(1), no order
            LET resendApiKey == tracked_urls[first].resend_api_key
            IN  IF resendApiKey = NoString
                THEN /\ resp' = Response("verify", 400, email, NoToken, NoId, <<>>)
                     /\ UNCHANGED <<email_tokens, outbox>>
                ELSE IF storeError
                THEN /\ resp' = Response("verify", 500, email, NoToken, NoId, <<>>)
                     /\ outbox' = IF send = "ok"
                                  THEN outbox \cup {[to |-> email, token |-> token,
                                                     key |-> resendApiKey]}
                                  ELSE outbox
                     /\ UNCHANGED email_tokens
                ELSE /\ email_tokens' =
                          Append(email_tokens,
                                 TokenRow(token, email, token,
                                          now + TokenTtlMs))
                     /\ resp' = Response("verify",
                                    CASE send = "ok" -> 200
                                      [] send = "refused" -> 400
                                      [] OTHER -> 500,
                                    email, NoToken, NoId, <<>>)
                     /\ outbox' = IF send = "ok"
                                  THEN outbox \cup {[to |-> email, token |-> token,
                                                     key |-> resendApiKey]}
                                  ELSE outbox
    /\ UNCHANGED <<tracked_urls, now, granted, inflight, passVars>>

VerifyEmail(email, storeError, send) ==
    LET mine == {i \in 1..Len(tracked_urls) :
                    tracked_urls[i].email = email /\ tracked_urls[i].is_active}
        token == Len(email_tokens) + 1          \* randomBytes(32): fresh
    IN
    /\ IF email = NoString \/ ~EmailFormatOk(email)
       THEN /\ resp' = Response("verify", 400, email, NoToken, NoId, <<>>)
            /\ UNCHANGED <<email_tokens, outbox>>
       ELSE IF mine = {}
       THEN /\ resp' = Response("verify", 404, email, NoToken, NoId, <<>>)
            /\ UNCHANGED <<email_tokens, outbox>>
       ELSE \E first \in mine :                 \* .limit(1), no order
            LET resendApiKey == tracked_urls[first].resend_api_key
            IN  IF resendApiKey = NoString
                THEN /\ resp' = Response("verify", 400, email, NoToken, NoId, <<>>)
                     /\ UNCHANGED <<email_tokens, outbox>>
                ELSE IF storeError
                THEN /\ resp' = Response("verify", 500, email, NoToken, NoId, <<>>)
                     /\ UNCHANGED <<email_tokens, outbox>>
                ELSE /\ email_tokens' =
                          Append(email_tokens,
                                 TokenRow(token, email, token,
                                          now + TokenTtlMs))
                     /\ resp' = Response("verify",
                                    CASE send = "ok" -> 200
                                      [] send = "refused" -> 400
                                      [] OTHER -> 500,
                                    email, NoToken, NoId, <<>>)
                     /\ outbox' = IF send = "ok"
                                  THEN outbox \cup {[to |-> email, token |-> token,
                                                     key |-> resendApiKey]}
                                  ELSE outbox
    /\ UNCHANGED <<tracked_urls, now, granted, inflight, passVars>>

----------------------------------------------------------------------------
(* The clock *)

Tick ==
    /\ now < MaxTicks * TickMs
    /\ now' = now + TickMs
    /\ resp' = Response("tick", 0, NoString, NoToken, NoId, <<>>)
    /\ UNCHANGED <<tracked_urls, email_tokens, outbox, granted, inflight,
                   passVars>>

----------------------------------------------------------------------------
(* The monitor (spec.md 4.1 - 4.5, 7): Normalizer, Change Detector,        *)
(* Notifier and Run Orchestrator                                           *)

MaxDays == 1        \* days the monitor's clock runs

DayMs == 24 * 60 * 60 * 1000

Today(t) == t \div DayMs            \* the date of a timestamp, as a day number

Tiers == Intervals \cup {"all"}

RawA == <<"a">>
RawPadded == <<" ", "a", "\n">>     \* "a" after normalization
RawTwo == <<"a", " ", "\n", "b">>   \* "a b" after normalization
RawBlank == <<" ">>                 \* "" after normalization
PageContents == {RawA, RawPadded, RawTwo, RawBlank}

\* 4.2: runs of white space collapse to one space, the ends are trimmed
Normalize(raw) == Trim(CollapseSpace(raw))

HashSeed == 5381
HashWidth == 65536

CharCode(c) == CASE c = "a" -> 97 [] c = "b" -> 98 [] OTHER -> 32

\* 4.2: a fixed-length fingerprint of the canonical string
RECURSIVE Fingerprint(_)
Fingerprint(canon) ==
    IF canon = <<>> THEN HashSeed
    ELSE (Fingerprint(SubSeq(canon, 1, Len(canon) - 1)) * 33
          + CharCode(canon[Len(canon)])) % HashWidth

\* 4.1: what the Fetcher hands back, or an unexpected exception in the
\* tracker's processing
Fetched(raw) == [kind |-> "ok", content |-> raw]
FetchError == [kind |-> "fetch-error", content |-> NullContent]
Defect == [kind |-> "defect", content |-> NullContent]
FetchOutcomes == {Fetched(c) : c \in PageContents} \cup {FetchError, Defect}

\* a detector without the first-run case: a missing baseline differs from
\* every fingerprint
DetectNoFirstRun(baseline_hash, fetch) ==
    IF fetch.kind # "ok" THEN "fetch-error"
    ELSE IF Fingerprint(Normalize(fetch.content)) = baseline_hash THEN "unchanged"
    ELSE "changed"

\* 4.3: the Check Result for a stored baseline and a fetch
Detect(baseline_hash, fetch) ==
    IF fetch.kind # "ok" THEN "fetch-error"
    ELSE IF baseline_hash = NullHash THEN "first-run"
    ELSE IF Fingerprint(Normalize(fetch.content)) = baseline_hash THEN "unchanged"
    ELSE "changed"

\* 6: what the email provider answers to a send
Providers == {"accepted", "failed"}

\* 4.4: one message through the provider with the tracker's own credential
\* or the fallback; without either, a ConfigurationError and no message
Notify(row, fallback, provider) ==
    IF row.resend_api_key = NoString /\ ~fallback
    THEN [delivery |-> "config-error", messages |-> 0]
    ELSE [delivery |-> IF provider = "accepted" THEN "delivered" ELSE "failed",
          messages |-> 1]

NoCheck == [result |-> "none", delivery |-> "none", messages |-> 0]

Check(result, delivery, messages) ==
    [result |-> result, delivery |-> delivery, messages |-> messages]

\* a store that takes a failed fetch for a page that became empty
PersistTouch(row, result, canon, t) ==
    LET seen == [row EXCEPT !.last_checked_at = t]
        rebased == [seen EXCEPT !.baseline_hash = Fingerprint(canon),
                                !.baseline_content = canon]
    IN  CASE result = "first-run" -> rebased
          [] result = "changed" -> [rebased EXCEPT !.last_change_at = t]
          [] result = "fetch-error" -> [rebased EXCEPT !.last_change_at = t]
          [] OTHER -> seen

\* a store that stamps last_change_at on every successful check
PersistStamp(row, result, canon, t) ==
    LET seen == [row EXCEPT !.last_checked_at = t]
        rebased == [seen EXCEPT !.baseline_hash = Fingerprint(canon),
                                !.baseline_content = canon]
    IN  CASE result = "first-run" -> rebased
          [] result = "changed" -> [rebased EXCEPT !.last_change_at = t]
          [] result = "unchanged" -> [seen EXCEPT !.last_change_at = t]
          [] OTHER -> seen

\* a store that keeps the old baseline when a change was detected
PersistKeepBaseline(row, result, canon, t) ==
    LET seen == [row EXCEPT !.last_checked_at = t]
        rebased == [seen EXCEPT !.baseline_hash = Fingerprint(canon),
                                !.baseline_content = canon]
    IN  CASE result = "first-run" -> rebased
          [] result = "changed" -> [seen EXCEPT !.last_change_at = t]
          [] OTHER -> seen

\* 4.3, 6: the row the Baseline Store writes for a Check Result: the time
\* of the attempt always, the new baseline on first-run and changed, the
\* time of the change on changed
Persist(row, result, canon, t) ==
    LET seen == [row EXCEPT !.last_checked_at = t]
        rebased == [seen EXCEPT !.baseline_hash = Fingerprint(canon),
                                !.baseline_content = canon]
    IN  CASE result = "first-run" -> rebased
          [] result = "changed" -> [rebased EXCEPT !.last_change_at = t]
          [] OTHER -> seen

\* 4.3, 4.5: Fetch -> Normalize -> Detect -> (Notify) -> Persist for one
\* tracker: the row to persist and the tracker's check.  An unexpected
\* exception skips the tracker and writes nothing.
CheckTracker(row, fetch, fallback, provider, t) ==
    LET result == Detect(row.baseline_hash, fetch)
        canon == Normalize(fetch.content)
        note == IF result = "changed" THEN Notify(row, fallback, provider)
                ELSE [delivery |-> "none", messages |-> 0]
    IN  IF fetch.kind = "defect"
        THEN [row |-> row, check |-> Check("exception", "none", 0)]
        ELSE [row |-> Persist(row, result, canon, t),
              check |-> Check(result, note.delivery, note.messages)]

\* a selection that never looks at the expiration date
EligibleAnyDate(row, tier, today) ==
    /\ row.is_active
    /\ tier = "all" \/ row.check_interval = tier

\* 4.5: active, not past its expiration date, of the tier asked for
Eligible(row, tier, today) ==
    /\ row.is_active
    /\ row.expires_at = NullTime \/ today <= row.expires_at
    /\ tier = "all" \/ row.check_interval = tier

Select(table, tier, today) ==
    {i \in 1..Len(table) : Eligible(table[i], tier, today)}

\* a set of ids as a sequence, in the order of the table
RECURSIVE InOrder(_)
InOrder(ids) ==
    IF ids = {} THEN <<>>
    ELSE LET first == CHOOSE i \in ids : \A j \in ids : i <= j
         IN  <<first>> \o InOrder(ids \ {first})

\* 4.5: the counts of the pass
Summarize(checks, selected) ==
    [checked |-> Cardinality({i \in selected : checks[i].result \in
                    {"first-run", "unchanged", "changed", "fetch-error"}}),
     changed |-> Cardinality({i \in selected : checks[i].result = "changed"}),
     errored |-> Cardinality({i \in selected : checks[i].result \in
                    {"fetch-error", "exception"}})]

NoSummary == [checked |-> 0, changed |-> 0, errored |-> 0]

StartPass(tier, fallback) ==
    LET selected == Select(tracked_urls, tier, Today(now))
    IN  /\ pass.phase # "running"
        /\ pass' = [phase |-> "running", tier |-> tier, fallback |-> fallback,
                    selected |-> selected]
        /\ queue' = InOrder(selected)
        /\ results' = [i \in 1..Len(tracked_urls) |-> NoCheck]
        /\ summary' = NoSummary
        /\ lastContent' = [i \in 1..Len(tracked_urls) |->
                              IF i <= Len(lastContent) THEN lastContent[i]
                              ELSE NullContent]
        /\ UNCHANGED <<tracked_urls, now, apiVars>>

\* an orchestrator that gives up the pass at the first tracker that fails
CheckNextAbort(fetch, provider) ==
    /\ pass.phase = "running"
    /\ queue # <<>>
    /\ LET id == Head(queue)
           out == CheckTracker(tracked_urls[id], fetch, pass.fallback,
                               provider, now)
       IN  /\ tracked_urls' = [tracked_urls EXCEPT ![id] = out.row]
           /\ results' = [results EXCEPT ![id] = out.check]
           /\ lastContent' = IF fetch.kind = "ok"
                             THEN [lastContent EXCEPT ![id] = fetch.content]
                             ELSE lastContent
    /\ queue' = IF fetch.kind = "ok" THEN Tail(queue) ELSE <<>>
    /\ UNCHANGED <<now, apiVars, pass, summary>>

\* 4.5: the orchestrator takes the next selected tracker, whatever became
\* of the one before
CheckNext(fetch, provider) ==
    /\ pass.phase = "running"
    /\ queue # <<>>
    /\ LET id == Head(queue)
           out == CheckTracker(tracked_urls[id], fetch, pass.fallback,
                               provider, now)
       IN  /\ tracked_urls' = [tracked_urls EXCEPT ![id] = out.row]
           /\ results' = [results EXCEPT ![id] = out.check]
           /\ lastContent' = IF fetch.kind = "ok"
                             THEN [lastContent EXCEPT ![id] = fetch.content]
                             ELSE lastContent
    /\ queue' = Tail(queue)
    /\ UNCHANGED <<now, apiVars, pass, summary>>

FinishPass ==
    /\ pass.phase = "running"
    /\ queue = <<>>
    /\ pass' = [pass EXCEPT !.phase = "done"]
    /\ summary' = Summarize(results, pass.selected)
    /\ UNCHANGED <<tracked_urls, now, apiVars, queue, results, lastContent>>

\* 3, Lifecycle: the registration flow creates a tracker, active and with
\* no baseline
TrackerConfigs ==
    {[interval |-> "hourly", key |-> KeyGood, expires |-> NullTime],
     [interval |-> "daily", key |-> NoString, expires |-> 0]}

Register(config) ==
    LET id == Len(tracked_urls) + 1
    IN  /\ Len(tracked_urls) < MaxRows
        /\ tracked_urls' = Append(tracked_urls,
              TrackedRow(id, EmailA, config.key, UrlSoc.href, NoString,
                         NoString, NoString, NoString, config.interval,
                         config.expires))
        /\ UNCHANGED <<now, apiVars, passVars>>

\* 3, Lifecycle: the deletion flow sets is_active = false
Deactivate(id) ==
    /\ id \in 1..Len(tracked_urls)
    /\ tracked_urls[id].is_active
    /\ tracked_urls' = SoftDelete(tracked_urls, id, tracked_urls[id].email)
    /\ UNCHANGED <<now, apiVars, passVars>>

NextDay ==
    /\ now < MaxDays * DayMs
    /\ now' = now + DayMs
    /\ UNCHANGED <<tracked_urls, apiVars, passVars>>

----------------------------------------------------------------------------
(* The web API *)

Init ==
    /\ tracked_urls = <<>>
    /\ email_tokens = <<>>
    /\ now = 0
    /\ resp = Response("init", 0, NoString, NoToken, NoId, <<>>)
    /\ outbox = {}
    /\ granted = {}
    /\ inflight = <<>>
    /\ pass = [phase |-> "idle", tier |-> "all", fallback |-> FALSE,
               selected |-> {}]
    /\ queue = <<>>
    /\ results = <<>>
    /\ summary = NoSummary
    /\ lastContent = <<>>

\* the requests the model sends: the accepted bodies over two emails and two
\* URLs, one with an explicit interval, and one request per way of being
\* turned down
GoodBody(email, url, interval) == Body(email, KeyGood, url, interval, 20, TRUE)

PostCalls ==
    {[body |-> GoodBody(e, u, i), resend |-> 200, storeError |-> FALSE] :
        e \in ValidEmails, u \in {UrlSoc, UrlLookalike}, i \in {Omitted}}
    \cup {[body |-> b, resend |-> 200, storeError |-> FALSE] :
        b \in {GoodBody(EmailNoDot, UrlSoc, Omitted),
               GoodBody(NoString, UrlSoc, Omitted),
               GoodBody(EmailA, UrlOther, Omitted),
               GoodBody(EmailA, UrlEmpty, Omitted),
               GoodBody(EmailA, UrlSoc, "daily"),
               GoodBody(EmailA, UrlSoc, "weekly"),
               Body(EmailA, KeyNoPrefix, UrlSoc, Omitted, 20, TRUE),
               Body(EmailA, NoString, UrlSoc, Omitted, 20, TRUE),
               Body(EmailA, KeyGood, UrlSoc, Omitted, NoDate, TRUE)}}
    \cup {[body |-> GoodBody(EmailA, UrlSoc, Omitted), resend |-> r,
           storeError |-> FALSE] : r \in ResendOutcomes}
    \cup {[body |-> GoodBody(EmailA, UrlSoc, Omitted), resend |-> 200,
           storeError |-> TRUE]}

QueryEmails == ValidEmails \cup {NoString}

Next ==
    \/ \E email \in ValidEmails \cup {EmailNoDot, NoString},
          storeError \in BOOLEAN, send \in SendOutcomes :
          /\ Len(email_tokens) < MaxTokens
          /\ VerifyEmail(email, storeError, send)
    \/ \E email \in QueryEmails, token \in 0..(MaxTokens + 1),
          tokenError \in BOOLEAN, listError \in BOOLEAN :
          GetTrackers(email, token, tokenError, listError)
    \/ \E call \in PostCalls :
          PostTrackers(call.body, call.resend, call.storeError)
    \/ \E id \in 0..(MaxRows + 1), email \in QueryEmails, storeError \in BOOLEAN :
          DeleteTrackers(id, email, storeError)
    \/ Tick

Spec == Init /\ [][Next]_vars

----------------------------------------------------------------------------
(* The monitor over a store the registration and deletion flows fill *)

PassNext ==
    \/ \E config \in TrackerConfigs : Register(config)
    \/ \E id \in 1..MaxRows : Deactivate(id)
    \/ \E tier \in Tiers, fallback \in BOOLEAN : StartPass(tier, fallback)
    \/ \E fetch \in FetchOutcomes, provider \in Providers :
          CheckNext(fetch, provider)
    \/ FinishPass
    \/ NextDay

PassSpec == Init /\ [][PassNext]_vars

----------------------------------------------------------------------------
(* The web API and the monitor over one store *)

SystemNext ==
    \/ \E email \in ValidEmails :
          /\ Len(email_tokens) < MaxTokens
          /\ VerifyEmail(email, FALSE, "ok")
    \/ \E email \in ValidEmails, token \in 0..MaxTokens :
          GetTrackers(email, token, FALSE, FALSE)
    \/ \E email \in ValidEmails :
          PostTrackers(GoodBody(email, UrlSoc, Omitted), 200, FALSE)
    \/ \E id \in 1..MaxRows, email \in ValidEmails :
          DeleteTrackers(id, email, FALSE)
    \/ StartPass("all", TRUE)
    \/ \E fetch \in {Fetched(RawA), Fetched(RawTwo)} :
          CheckNext(fetch, "accepted")
    \/ FinishPass
    \/ NextDay

SystemSpec == Init /\ [][SystemNext]_vars

----------------------------------------------------------------------------
(* POST /api/trackers over a wider range of bodies, one field off the      *)
(* accepted body at a time, and DELETE                                     *)

PostInputs ==
    {[body |-> Body(e, KeyGood, u, Omitted, 20, fromForm), resend |-> 200,
      storeError |-> FALSE] :
        e \in ValidEmails, u \in {UrlSoc, UrlLookalike}, fromForm \in BOOLEAN}
    \cup {[body |-> b, resend |-> 200, storeError |-> FALSE] :
        b \in {GoodBody(EmailA, UrlSoc, i) : i \in RequestIntervals}
           \cup {GoodBody(e, UrlSoc, Omitted) : e \in RequestEmails}
           \cup {GoodBody(EmailA, u, Omitted) : u \in RequestUrls}
           \cup {Body(EmailA, k, UrlSoc, Omitted, 20, TRUE) : k \in RequestKeys}
           \cup {Body(EmailA, KeyGood, UrlSoc, Omitted, d, TRUE) :
                    d \in RequestDates \cup {BadDate}}}
    \cup {[body |-> GoodBody(EmailA, UrlSoc, Omitted), resend |-> r,
           storeError |-> FALSE] : r \in ResendOutcomes}
    \cup {[body |-> GoodBody(EmailA, UrlSoc, Omitted), resend |-> 200,
           storeError |-> TRUE]}

PostNext ==
    \/ \E call \in PostInputs :
          PostTrackers(call.body, call.resend, call.storeError)
    \/ \E id \in 1..MaxRows, email \in ValidEmails, storeError \in BOOLEAN :
          DeleteTrackers(id, email, storeError)

PostSpec == Init /\ [][PostNext]_vars

----------------------------------------------------------------------------
(* The web API with several verification links per email and trackers     *)
(* that hold different Resend keys                                         *)

MaxLinks == 2       \* email_tokens rows

LinkCalls ==
    {[body |-> Body(EmailA, k, UrlSoc, Omitted, 20, TRUE), resend |-> 200,
      storeError |-> FALSE] : k \in {KeyGood, KeyOther}}
    \cup {[body |-> GoodBody(EmailB, UrlSoc, Omitted), resend |-> 200,
           storeError |-> FALSE],
          [body |-> GoodBody(EmailA, UrlSoc, Omitted), resend |-> 200,
           storeError |-> TRUE],
          [body |-> GoodBody(EmailA, UrlOther, Omitted), resend |-> 200,
           storeError |-> FALSE]}

\* the emails, tokens and tracker ids of the requests: the last token and
\* the last id are ones no row holds
LinkVerifyEmails == ValidEmails \cup {EmailNoDot, NoString}
LinkTokens == 0..(MaxLinks + 1)
LinkIds == 1..(MaxRows + 1)

LinkNext ==
    \/ \E email \in LinkVerifyEmails, storeError \in BOOLEAN,
          send \in SendOutcomes :
          /\ Len(email_tokens) < MaxLinks
          /\ VerifyEmail(email, storeError, send)
    \/ \E email \in ValidEmails, token \in LinkTokens :
          GetTrackers(email, token, FALSE, FALSE)
    \/ \E call \in LinkCalls :
          PostTrackers(call.body, call.resend, call.storeError)
    \/ \E id \in LinkIds, email \in ValidEmails :
          DeleteTrackers(id, email, FALSE)
    \/ NextDay

LinkSpec == Init /\ [][LinkNext]_vars

----------------------------------------------------------------------------
(* POST requests that overlap: the handler awaits the duplicate check and   *)
(* then the insert, and other requests are served between the two          *)

RaceNext ==
    \/ \E email \in ValidEmails, url \in {UrlSoc, UrlLookalike} :
          PostCheck(GoodBody(email, url, Omitted), 200)
    \/ \E k \in 1..MaxInflight, storeError \in BOOLEAN : PostInsert(k, storeError)
    \/ \E id \in 1..MaxRows, email \in ValidEmails :
          DeleteTrackers(id, email, FALSE)

RaceSpec == Init /\ [][RaceNext]_vars

----------------------------------------------------------------------------
(* GET requests that overlap: the handler awaits the token lookup and then *)
(* the update of used_at, and other requests are served between the two    *)

GetRaceNext ==
    \/ \E email \in ValidEmails :
          PostTrackers(GoodBody(email, UrlSoc, Omitted), 200, FALSE)
    \/ \E email \in ValidEmails :
          /\ Len(email_tokens) < MaxTokens
          /\ VerifyEmail(email, FALSE, "ok")
    \/ \E email \in QueryEmails, token \in 0..(MaxTokens + 1),
          tokenError \in BOOLEAN :
          GetCheck(email, token, tokenError)
    \/ \E k \in 1..MaxInflight, listError \in BOOLEAN : GetFinish(k, listError)
    \/ NextDay

GetRaceSpec == Init /\ [][GetRaceNext]_vars

----------------------------------------------------------------------------
(* Properties of the web API *)

C2_CreatedFresh ==
    (resp.op = "post" /\ resp.status = 201) =>
        /\ resp.id = Len(tracked_urls)
        /\ tracked_urls[resp.id].is_active = TRUE
        /\ tracked_urls[resp.id].baseline_hash = NullHash
        /\ tracked_urls[resp.id].baseline_content = NullContent
        /\ tracked_urls[resp.id].last_checked_at = NullTime
        /\ tracked_urls[resp.id].last_change_at = NullTime

C2_Witness ==
    /\ resp.op = "post"
    /\ resp.status = 201
    /\ Len(tracked_urls) = 2
    /\ ~tracked_urls[1].is_active

\* C3: no step of the web API removes a tracked_urls row, and the only
\* thing a DELETE does to the table is to set is_active of the row with
\* the request's id and email to false.
C3_NeverHardDeleted ==
    [][/\ Len(tracked_urls') >= Len(tracked_urls)
       /\ \A i \in 1..Len(tracked_urls) : tracked_urls'[i].id = tracked_urls[i].id
       /\ resp'.op = "delete" =>
            /\ Len(tracked_urls') = Len(tracked_urls)
            /\ \A i \in 1..Len(tracked_urls) :
                 \/ tracked_urls'[i] = tracked_urls[i]
                 \/ /\ tracked_urls[i].id = resp'.id
                    /\ tracked_urls[i].email = resp'.email
                    /\ tracked_urls'[i]
                         = [tracked_urls[i] EXCEPT !.is_active = FALSE]
            /\ resp'.status = 200 =>
                 \A i \in 1..Len(tracked_urls) :
                    (tracked_urls[i].id = resp'.id
                     /\ tracked_urls[i].email = resp'.email)
                    => ~tracked_urls'[i].is_active]_vars

\* a DELETE was answered 200 for a row of two, which is still there
C3_Witness ==
    /\ resp.op = "delete"
    /\ resp.status = 200
    /\ Len(tracked_urls) = 2
    /\ resp.id \in 1..2
    /\ tracked_urls[resp.id].email = resp.email
    /\ ~tracked_urls[resp.id].is_active

\* C4: a step of the web API (verify, GET, POST, DELETE) leaves
\* baseline_hash, baseline_content, last_checked_at and last_change_at of
\* every existing row as they were, and a DELETE changes no column of any
\* row but is_active.
C4_ApiFrame ==
    [][(/\ UNCHANGED <<passVars, now>>
        /\ resp'.op \in {"verify", "get", "post", "delete"})
       => \A i \in 1..Len(tracked_urls) :
            /\ i <= Len(tracked_urls')
            /\ tracked_urls'[i].baseline_hash = tracked_urls[i].baseline_hash
            /\ tracked_urls'[i].baseline_content = tracked_urls[i].baseline_content
            /\ tracked_urls'[i].last_checked_at = tracked_urls[i].last_checked_at
            /\ tracked_urls'[i].last_change_at = tracked_urls[i].last_change_at
            /\ resp'.op = "delete" =>
                 tracked_urls'[i] = [tracked_urls[i] EXCEPT
                                       !.is_active = tracked_urls'[i].is_active]]_vars

\* a DELETE has deactivated a row that carries a baseline and a last change
C4_Witness ==
    /\ resp.op = "delete"
    /\ resp.status = 200
    /\ resp.id \in 1..Len(tracked_urls)
    /\ tracked_urls[resp.id].email = resp.email
    /\ ~tracked_urls[resp.id].is_active
    /\ tracked_urls[resp.id].baseline_hash # NullHash
    /\ tracked_urls[resp.id].last_change_at # NullTime

----------------------------------------------------------------------------
(* Properties of the monitoring pass *)

\* the fetches that hand back a page
Pages == {Fetched(c) : c \in PageContents}

C6_FetchErrorFrame ==
    [][\A provider \in Providers :
         (queue # <<>> /\ CheckNext(FetchError, provider))
         => LET id == Head(queue)
            IN  /\ results'[id] = Check("fetch-error", "none", 0)
                /\ tracked_urls'[id].baseline_hash
                     = tracked_urls[id].baseline_hash
                /\ tracked_urls'[id].baseline_content
                     = tracked_urls[id].baseline_content
                /\ tracked_urls'[id].last_change_at
                     = tracked_urls[id].last_change_at]_vars

\* a fetch failed for a tracker that had a baseline and a recorded change
C6_Witness ==
    \E i \in 1..Len(results) :
        /\ results[i].result = "fetch-error"
        /\ tracked_urls[i].baseline_hash # NullHash
        /\ tracked_urls[i].last_change_at # NullTime
        /\ tracked_urls[i].last_checked_at > tracked_urls[i].last_change_at

C8_Selection ==
    [][/\ \A tier \in Tiers, fallback \in BOOLEAN :
            StartPass(tier, fallback) =>
              /\ pass'.tier = tier
              /\ \A k \in 1..Len(queue') : queue'[k] \in pass'.selected
              /\ \A i \in pass'.selected :
                   /\ tracked_urls[i].is_active
                   /\ tracked_urls[i].expires_at = NullTime
                        \/ tracked_urls[i].expires_at >= Today(now)
                   /\ tier = "all" \/ tracked_urls[i].check_interval = tier
       /\ \A i \in 1..Len(tracked_urls) :
            (results' # results /\ pass' = pass /\ i \notin pass.selected)
              => (/\ tracked_urls'[i] = tracked_urls[i]
                  /\ i <= Len(results) => results'[i] = results[i])]_vars

\* a pass for every tier left out a tracker that was active and past its
\* expiration date when the pass started
C8_Witness ==
    /\ pass.phase = "running"
    /\ pass.tier = "all"
    /\ pass.selected # {}
    /\ Len(results) = Len(tracked_urls)
    /\ \E i \in 1..Len(tracked_urls) :
         /\ i \notin pass.selected
         /\ tracked_urls[i].is_active
         /\ tracked_urls[i].expires_at # NullTime
         /\ tracked_urls[i].expires_at < Today(now)

\* the tracker at the head of the queue has a baseline and the fetch's
\* fingerprint differs from it
ChangeAhead(fetch) ==
    /\ queue # <<>>
    /\ tracked_urls[Head(queue)].baseline_hash # NullHash
    /\ Fingerprint(Normalize(fetch.content))
         # tracked_urls[Head(queue)].baseline_hash

\* what every detected change does to the tracker's row: the new baseline,
\* the run time as last_change_at, and no notification for the same
\* content at the next check
Rebased(fetch) ==
    LET id == Head(queue)
        canon == Normalize(fetch.content)
    IN  /\ results'[id].result = "changed"
        /\ tracked_urls'[id].baseline_hash = Fingerprint(canon)
        /\ tracked_urls'[id].baseline_content = canon
        /\ tracked_urls'[id].last_change_at = now
        /\ \A fallback \in BOOLEAN, provider \in Providers :
             CheckTracker(tracked_urls'[id], fetch, fallback, provider,
                          now).check = Check("unchanged", "none", 0)

Failures == {"fetch-error", "exception"}

\* C10: when a pass is over, every tracker it selected has been processed,
\* whatever became of the others: the failing ones are counted under
\* errored, every other one under checked, and nothing else is counted.
C10_Isolation ==
    pass.phase = "done" =>
        LET failed == {i \in pass.selected : results[i].result \in Failures}
            passed == pass.selected \ failed
        IN  /\ \A i \in pass.selected : results[i].result # "none"
            /\ summary.errored = Cardinality(failed)
            /\ summary.checked >= Cardinality(passed)
            /\ summary.checked <= Cardinality(pass.selected)
            /\ summary.changed
                 = Cardinality({i \in passed : results[i].result = "changed"})

\* a pass is over in which the first tracker failed and the second was
\* checked
C10_Witness ==
    /\ pass.phase = "done"
    /\ pass.selected = {1, 2}
    /\ results[1].result \in Failures
    /\ results[2].result \in {"first-run", "unchanged", "changed"}
    /\ summary.errored = 1
    /\ summary.checked >= 1

----------------------------------------------------------------------------
(* Properties of the web API, continued *)

\* C11: in every reachable state there is at most one tracked_urls row
\* with is_active = true for each (email, ucla_url) pair.
C11_OneActivePerPair ==
    \A i, j \in 1..Len(tracked_urls) :
        (/\ tracked_urls[i].is_active
         /\ tracked_urls[j].is_active
         /\ tracked_urls[i].email = tracked_urls[j].email
         /\ tracked_urls[i].ucla_url = tracked_urls[j].ucla_url)
        => i = j

\* C12: a GET /api/trackers that returns the tracker list of an email
\* presented a token that was issued for that email, unused and unexpired.
C12_ListNeedsToken ==
    [][(/\ resp'.op = "get"
        /\ resp'.status = 200
        /\ resp'.trackers # <<>>)
       => \E i \in 1..Len(email_tokens) :
             TokenUsable(email_tokens[i], resp'.token, resp'.email, now)]_vars

\* C13: a DELETE /api/trackers deactivates a tracker of an email only if
\* a valid token for that email has been presented before.
C13_DeleteNeedsToken ==
    [][(/\ resp'.op = "delete"
        /\ \E i \in 1..Len(tracked_urls) :
              tracked_urls[i].is_active /\ ~tracked_urls'[i].is_active)
       => \E pair \in granted : pair[1] = resp'.email]_vars

C15_TokenBoundToEmail ==
    [][(/\ resp'.op = "get"
        /\ resp'.token # NoToken
        /\ resp'.email # NoString
        /\ \E i \in 1..Len(email_tokens) :
              email_tokens[i].token = resp'.token
        /\ \A i \in 1..Len(email_tokens) :
              email_tokens[i].token = resp'.token
                => email_tokens[i].email # resp'.email)
       => (/\ resp'.status = 401
           /\ resp'.trackers = <<>>
           /\ email_tokens' = email_tokens)]_vars

\* a GET for an email that has a tracker presented the unused, unexpired
\* token of another email, and was turned down
C15_Witness ==
    /\ resp.op = "get"
    /\ resp.status = 401
    /\ \E r \in 1..Len(tracked_urls) : tracked_urls[r].email = resp.email
    /\ \E i \in 1..Len(email_tokens) :
         /\ email_tokens[i].token = resp.token
         /\ email_tokens[i].email # resp.email
         /\ email_tokens[i].used_at = NullTime
         /\ email_tokens[i].expires_at > now

\* C16: a POST inserts a row only if the validation request to Resend
\* returned a success status; when it returns another status or fails, no
\* row is inserted.
C16_SavedOnlyIfKeyValid ==
    [][\A call \in PostInputs :
         (/\ call.resend # 200
          /\ PostTrackers(call.body, call.resend, call.storeError))
         => UNCHANGED tracked_urls]_vars

\* C17: a POST with a valid class URL, email and end date and no Resend
\* API key creates the tracker.
C17_KeyOptional ==
    [][\A email \in ValidEmails :
         LET body == Body(email, NoString, UrlSoc, Omitted, 20, TRUE)
         IN  (/\ PostTrackers(body, 200, FALSE)
              /\ Existing(tracked_urls, email, UrlSoc.href) = {})
             => (/\ resp'.status = 201
                 /\ Len(tracked_urls') = Len(tracked_urls) + 1)]_vars

\* C18: once the active tracker of (email, url) has been deleted, a valid
\* POST for the same pair is answered 201 and adds a row with a new id,
\* active and without baseline; the rows there were stay as they are,
\* the deleted one inactive.
C18_RecreateAfterDelete ==
    [][\A email \in ValidEmails :
         LET body == GoodBody(email, UrlSoc, Omitted)
             same == {i \in 1..Len(tracked_urls) :
                        /\ tracked_urls[i].email = email
                        /\ tracked_urls[i].ucla_url = UrlSoc.href}
         IN  (/\ PostTrackers(body, 200, FALSE)
              /\ same # {}
              /\ \A i \in same : ~tracked_urls[i].is_active)
             => LET new == tracked_urls'[Len(tracked_urls')]
                IN  /\ resp'.status = 201
                    /\ Len(tracked_urls') = Len(tracked_urls) + 1
                    /\ resp'.id = new.id
                    /\ \A i \in 1..Len(tracked_urls) :
                          /\ tracked_urls[i].id # new.id
                          /\ tracked_urls'[i] = tracked_urls[i]
                    /\ new.email = email
                    /\ new.ucla_url = UrlSoc.href
                    /\ new.is_active
                    /\ new.baseline_hash = NullHash
                    /\ new.baseline_content = NullContent]_vars

\* a POST created a second row for a pair whose first row, deleted, keeps
\* the baseline a pass had stored
C18_Witness ==
    /\ resp.op = "post"
    /\ resp.status = 201
    /\ \E i \in 1..Len(tracked_urls) :
         /\ i # resp.id
         /\ tracked_urls[i].email = tracked_urls[resp.id].email
         /\ tracked_urls[i].ucla_url = tracked_urls[resp.id].ucla_url
         /\ ~tracked_urls[i].is_active
         /\ tracked_urls[i].baseline_hash # NullHash
         /\ tracked_urls[resp.id].is_active
         /\ tracked_urls[resp.id].baseline_hash = NullHash

\* C19: every stored tracker has check_interval hourly, 6hours or daily; a
\* POST with another value is answered 400 and creates no row, and a POST
\* that omits checkInterval stores hourly.
C19_Interval ==
    [][/\ \A i \in 1..Len(tracked_urls') :
            tracked_urls'[i].check_interval \in {"hourly", "6hours", "daily"}
       /\ \A call \in PostInputs :
            PostTrackers(call.body, call.resend, call.storeError) =>
              /\ call.body.checkInterval
                    \notin {"hourly", "6hours", "daily", Omitted}
                 => (resp'.status = 400 /\ UNCHANGED tracked_urls)
              /\ (call.body.checkInterval = Omitted /\ resp'.status = 201)
                 => tracked_urls'[resp'.id].check_interval = "hourly"]_vars

\* trackers were stored with 6hours, asked for, and with hourly, the
\* interval of a request that names none
C19_Witness ==
    /\ resp.op = "post"
    /\ resp.status = 201
    /\ tracked_urls[resp.id].check_interval = "hourly"
    /\ \E i \in 1..Len(tracked_urls) : tracked_urls[i].check_interval = "6hours"

\* C20: every tracker a POST creates has the requested end date as its
\* expires_at, which is not null; a POST without end date is answered 400
\* and creates no row.
C20_EndDate ==
    [][/\ \A i \in 1..Len(tracked_urls') :
            tracked_urls'[i].expires_at \notin {NullTime, NoDate, BadDate}
       /\ \A call \in PostInputs :
            PostTrackers(call.body, call.resend, call.storeError) =>
              /\ call.body.expiresAt = NoDate
                 => (resp'.status = 400 /\ UNCHANGED tracked_urls)
              /\ resp'.status = 201
                 => tracked_urls'[resp'.id].expires_at = call.body.expiresAt]_vars

\* a POST created a tracker that expires on the date the request named
C20_Witness ==
    /\ resp.op = "post"
    /\ resp.status = 201
    /\ tracked_urls[resp.id].expires_at = 20
    /\ tracked_urls[resp.id].expires_at # NullTime

\* a host name that is sa.ucla.edu or a subdomain of it
UclaHost(hostname) ==
    \/ hostname = HostSoc
    \/ /\ Len(hostname) > Len(HostSoc) + 1
       /\ SubSeq(hostname, Len(hostname) - Len(HostSoc), Len(hostname))
            = <<".">> \o HostSoc

\* C21: parseUclaUrl returns a result, and POST stores a tracker, only for
\* a URL whose host is sa.ucla.edu or a subdomain of it.
C21_UclaHostOnly ==
    [][\A call \in PostInputs :
         PostTrackers(call.body, call.resend, call.storeError) =>
           /\ parseUclaUrl(call.body.uclaUrl).ok
                => UclaHost(call.body.uclaUrl.hostname)
           /\ resp'.status = 201
                => UclaHost(call.body.uclaUrl.hostname)]_vars

\* a URL string that does not parse, or that lacks a non-empty term_cd,
\* subj_area_cd (trimmed), crs_catlg_no (trimmed) or class_id
LacksClass(url) ==
    \/ ~url.parses
    \/ url.term_cd = NoString
    \/ Trim(url.subj_area_cd) = NoString
    \/ Trim(url.crs_catlg_no) = NoString
    \/ url.class_id = NoString

\* C22 as stated: parseUclaUrl returns null for every input that does not
\* parse or lacks one of the four parameters, and the four fields of a
\* result are non-empty and equal the query parameters.
C22_FieldsAreParameters ==
    [][\A call \in PostInputs :
         PostTrackers(call.body, call.resend, call.storeError) =>
           LET url == call.body.uclaUrl
               parsed == parseUclaUrl(url)
           IN  /\ LacksClass(url) => ~parsed.ok
               /\ parsed.ok =>
                    /\ parsed.termCode = url.term_cd
                    /\ parsed.subjectArea = url.subj_area_cd
                    /\ parsed.catalogNumber = url.crs_catlg_no
                    /\ parsed.classId = url.class_id
                    /\ NoString \notin {parsed.termCode, parsed.subjectArea,
                                        parsed.catalogNumber, parsed.classId}]_vars

\* C22, amended: parseUclaUrl returns null for every input that does not
\* parse or lacks one of the four parameters, and POST then answers 400
\* and stores nothing; the four fields of a result are non-empty, termCode
\* and classId equal term_cd and class_id, subjectArea and catalogNumber
\* equal subj_area_cd and crs_catlg_no with the white space at their ends
\* removed, and these are the values POST stores for a body that names
\* none of its own.
C22_FieldsAreTrimmedParameters ==
    [][\A call \in PostInputs :
         PostTrackers(call.body, call.resend, call.storeError) =>
           LET url == call.body.uclaUrl
               parsed == parseUclaUrl(url)
           IN  /\ LacksClass(url)
                    => (/\ ~parsed.ok
                        /\ resp'.status = 400
                        /\ UNCHANGED tracked_urls)
               /\ parsed.ok =>
                    /\ parsed.termCode = url.term_cd
                    /\ parsed.subjectArea = Trim(url.subj_area_cd)
                    /\ parsed.catalogNumber = Trim(url.crs_catlg_no)
                    /\ parsed.classId = url.class_id
                    /\ NoString \notin {parsed.termCode, parsed.subjectArea,
                                        parsed.catalogNumber, parsed.classId}
               /\ (resp'.status = 201 /\ call.body.termCode = NoString)
                    => LET new == tracked_urls'[resp'.id]
                       IN  /\ new.term_code = url.term_cd
                           /\ new.subject_area = Trim(url.subj_area_cd)
                           /\ new.catalog_number = Trim(url.crs_catlg_no)]_vars

\* a POST that named the URL alone stored the class of the URL, the
\* subject area "CS " as "CS" and the catalog number " 31" as "31"
C22_Witness ==
    /\ resp.op = "post"
    /\ resp.status = 201
    /\ tracked_urls[resp.id].class_name = UndefinedName
    /\ tracked_urls[resp.id].term_code = T26W
    /\ tracked_urls[resp.id].subject_area = <<"C", "S">>
    /\ tracked_urls[resp.id].catalog_number = <<"3", "1">>

\* C26: a POST answered with a status other than 201 leaves tracked_urls
\* as it was, and a POST answered 201 adds exactly one row.
C26_PostAtomic ==
    [][\A call \in PostInputs :
         PostTrackers(call.body, call.resend, call.storeError) =>
           /\ resp'.op = "post"
           /\ resp'.status \in {201, 400, 409, 500}
           /\ resp'.status # 201 => UNCHANGED tracked_urls
           /\ resp'.status = 201 =>
                /\ Len(tracked_urls') = Len(tracked_urls) + 1
                /\ SubSeq(tracked_urls', 1, Len(tracked_urls)) = tracked_urls]_vars

\* a POST for a pair that has an active tracker was answered 409 and the
\* table holds that tracker alone
C26_Witness ==
    /\ resp.op = "post"
    /\ resp.status = 409
    /\ Len(tracked_urls) = 1
    /\ tracked_urls[1].is_active
    /\ tracked_urls[1].email = resp.email

C25_VerifyRejections ==
    [][\A email \in LinkVerifyEmails, storeError \in BOOLEAN,
          send \in SendOutcomes :
         VerifyEmail(email, storeError, send) =>
           LET tracked == \E i \in 1..Len(tracked_urls) :
                             /\ tracked_urls[i].email = email
                             /\ tracked_urls[i].is_active
                             /\ tracked_urls[i].resend_api_key # NoString
           IN  /\ email \in {NoString, EmailNoDot}
                    => (resp'.status = 400 /\ UNCHANGED <<email_tokens, outbox>>)
               /\ (email \in ValidEmails /\ ~tracked)
                    => (resp'.status = 404 /\ UNCHANGED <<email_tokens, outbox>>)
               /\ email_tokens' # email_tokens => tracked
               /\ outbox' # outbox => tracked]_vars

\* a link was asked for an email whose only tracker is deleted: 404, no
\* token, no email
C25_Witness ==
    /\ resp.op = "verify"
    /\ resp.status = 404
    /\ \E i \in 1..Len(tracked_urls) : tracked_urls[i].email = resp.email
    /\ \A i \in 1..Len(email_tokens) : email_tokens[i].email # resp.email
    /\ \A m \in outbox : m.to # resp.email

\* C27: DELETE changes no row but the one whose id and email are the
\* request's id and email; with an id no row has, or an email that is not
\* the email of the row with that id, it changes no row.
C27_DeleteFrame ==
    [][\A id \in LinkIds, email \in ValidEmails :
         DeleteTrackers(id, email, FALSE) =>
           /\ Len(tracked_urls') = Len(tracked_urls)
           /\ \A i \in 1..Len(tracked_urls) :
                 (tracked_urls[i].id # id \/ tracked_urls[i].email # email)
                   => tracked_urls'[i] = tracked_urls[i]
           /\ (\A i \in 1..Len(tracked_urls) :
                 tracked_urls[i].id # id \/ tracked_urls[i].email # email)
                => UNCHANGED tracked_urls
           /\ UNCHANGED email_tokens]_vars

\* a DELETE named the id of a tracker of another email: the tracker is
\* still active
C27_Witness ==
    /\ resp.op = "delete"
    /\ resp.status = 200
    /\ resp.id \in 1..Len(tracked_urls)
    /\ tracked_urls[resp.id].email # resp.email
    /\ tracked_urls[resp.id].is_active

\* C28: a GET that carries a token which no row holds, or which was issued
\* for another email, or is used, or is expired, is answered 401; a GET
\* answered 401 leaves every email_tokens row as it was and carries no
\* tracker data.
C28_RejectedGetFrame ==
    [][\A email \in ValidEmails, token \in LinkTokens \ {NoToken} :
         GetTrackers(email, token, FALSE, FALSE) =>
           /\ (\A i \in 1..Len(email_tokens) :
                 \/ email_tokens[i].token # token
                 \/ email_tokens[i].email # email
                 \/ email_tokens[i].used_at # NullTime
                 \/ email_tokens[i].expires_at <= now)
                => resp'.status = 401
           /\ resp'.status = 401
                => (UNCHANGED email_tokens /\ resp'.trackers = <<>>)]_vars

\* a GET with a token no row holds was turned down while the email has a
\* tracker and a token that is still unused
C28_Witness ==
    /\ resp.op = "get"
    /\ resp.status = 401
    /\ resp.token # NoToken
    /\ \A i \in 1..Len(email_tokens) : email_tokens[i].token # resp.token
    /\ \E i \in 1..Len(email_tokens) :
         /\ email_tokens[i].email = resp.email
         /\ email_tokens[i].used_at = NullTime
    /\ \E r \in 1..Len(tracked_urls) : tracked_urls[r].email = resp.email

\* C29: every verification link POST /api/verify sends carries a token
\* that email_tokens holds for that email with used_at null; when the
\* token insert fails no email is sent; and a new token leaves the earlier
\* token rows as they were.
C29_TokenBeforeEmail ==
    [][\A email \in LinkVerifyEmails, storeError \in BOOLEAN,
          send \in SendOutcomes :
         VerifyEmail(email, storeError, send) =>
           /\ \A m \in outbox' \ outbox :
                 /\ m.to = email
                 /\ \E i \in 1..Len(email_tokens') :
                      /\ email_tokens'[i].token = m.token
                      /\ email_tokens'[i].email = email
                      /\ email_tokens'[i].used_at = NullTime
                      /\ i > Len(email_tokens)
           /\ storeError => UNCHANGED <<email_tokens, outbox>>
           /\ Len(email_tokens') \in {Len(email_tokens), Len(email_tokens) + 1}
           /\ \A i \in 1..Len(email_tokens) :
                 email_tokens'[i] = email_tokens[i]]_vars

\* a second link was sent for an email whose first link had been used: both
\* links are in the outbox, the first token is still marked used
C29_Witness ==
    /\ resp.op = "verify"
    /\ resp.status = 200
    /\ Len(email_tokens) = 2
    /\ email_tokens[1].email = resp.email
    /\ email_tokens[2].email = resp.email
    /\ email_tokens[1].used_at # NullTime
    /\ email_tokens[2].used_at = NullTime
    /\ \A i \in 1..2 :
         \E m \in outbox : m.to = resp.email /\ m.token = email_tokens[i].token

\* the response fields that are character sequences
TextColumns == {"email", "class_name", "term_code", "subject_area",
                "catalog_number"}

\* C30: no response of the web API carries a resend_api_key column or a
\* stored key, and the response of POST /api/verify is settled by the
\* email, the emails and is_active flags of the stored trackers, the
\* outcome of the token insert and the outcome of the send, whatever the
\* stored keys are.
C30_KeyNeverReturned ==
    [][/\ \A i \in 1..Len(resp'.trackers) :
            /\ "resend_api_key" \notin DOMAIN resp'.trackers[i]
            /\ \A j \in 1..Len(tracked_urls'), c \in TextColumns :
                 resp'.trackers[i][c] # tracked_urls'[j].resend_api_key
       /\ \A j \in 1..Len(tracked_urls') :
            resp'.email # tracked_urls'[j].resend_api_key
       /\ \A email \in LinkVerifyEmails, storeError \in BOOLEAN,
             send \in SendOutcomes :
            VerifyEmail(email, storeError, send) =>
              resp' = Response("verify",
                               IF email \in {NoString, EmailNoDot} THEN 400
                               ELSE IF \A i \in 1..Len(tracked_urls) :
                                          \/ tracked_urls[i].email # email
                                          \/ ~tracked_urls[i].is_active
                                    THEN 404
                               ELSE IF storeError THEN 500
                               ELSE CASE send = "ok" -> 200
                                      [] send = "refused" -> 400
                                      [] OTHER -> 500,
                               email, NoToken, NoId, <<>>)]_vars

\* links for one email were sent with two different stored keys, and a GET
\* with the token of one of them lists the tracker
C30_Witness ==
    /\ resp.op = "get"
    /\ resp.status = 200
    /\ resp.token # NoToken
    /\ Len(resp.trackers) = 2
    /\ tracked_urls[1].resend_api_key # tracked_urls[2].resend_api_key
    /\ \E m, n \in outbox : m.to = resp.email /\ n.to = resp.email
                             /\ m.key # n.key

\* C23: of the overlapping GET requests that carry the same valid token,
\* at most one is answered 200: no GET is answered 200 with a token that
\* an earlier GET was answered 200 with.
C23_SingleUseOverlapping ==
    [][\A k \in 1..MaxInflight, listError \in BOOLEAN :
         GetFinish(k, listError) =>
           ((resp'.status = 200 /\ resp'.token # NoToken)
              => <<resp'.email, resp'.token>> \notin granted)]_vars

============================================================================
